---- MODULE Spec2Model ----
(***************************************************************************)
(* KNXnet/IP gateway simulator (knx_simulator.py): the receive loop of     *)
(* KNXSimulator.run, its handlers, the frame codec and the cEMI inspector. *)
(* Datagrams and frames are sequences of bytes (0..255); an address is the *)
(* pair <<ip, port>> with ip the dotted quad as a 4-tuple.                 *)
(***************************************************************************)
EXTENDS Integers, Sequences, FiniteSets, TLC

VARIABLES channels, next_channel, pc, last, out, prev, steps, ind_seqs, probe, tmp, connects

vars == <<channels, next_channel, pc, last, out, prev, steps, ind_seqs, probe, tmp, connects>>

(* ---------------- bounds ---------------- *)

\* number of datagrams received after the start state
MaxSteps == 3

(* ---------------- protocol constants ---------------- *)

SERVICE_SEARCH_REQUEST == 513
SERVICE_SEARCH_RESPONSE == 514
SERVICE_CONNECT_REQUEST == 517
SERVICE_CONNECT_RESPONSE == 518
SERVICE_CONNECTIONSTATE_REQUEST == 519
SERVICE_CONNECTIONSTATE_RESPONSE == 520
SERVICE_DISCONNECT_REQUEST == 521
SERVICE_DISCONNECT_RESPONSE == 522
SERVICE_TUNNELING_REQUEST == 1056
SERVICE_TUNNELING_ACK == 1057
SERVICE_TUNNELING_INDICATION == 1056
STATUS_OK == 0

\* self.port, the UDP port the simulator is bound to (default 3671)
port == 3671

\* Python's None / an empty bytes object: both are falsy in `if response:`
None == <<>>

\* what parse_header returns for a datagram shorter than 6 bytes
NoFrame == [none |-> TRUE]

(* ---------------- byte helpers ---------------- *)

Min(a, b) == IF a < b THEN a ELSE b

\* Python slice s[a:b] on a bytes object (0-based, clipped to the length)
Slice(s, a, b) == SubSeq(s, a + 1, Min(b, Len(s)))

\* struct.pack('>H', v) for 0 <= v <= 65535
PackH(v) == <<v \div 256, v % 256>>

\* struct.unpack('>H', b)[0]
UnpackH(b) == b[1] * 256 + b[2]

RECURSIVE Digits(_)
\* the decimal digits of n, as '%d' writes them (no leading zeros)
Digits(n) == IF n < 10 THEN <<n>> ELSE Digits(n \div 10) \o <<n % 10>>

RECURSIVE Value(_)
\* the number a string of decimal digits denotes
Value(ds) ==
    IF ds = <<>> THEN 0
    ELSE Value(SubSeq(ds, 1, Len(ds) - 1)) * 10 + ds[Len(ds)]

\* the text 'a.b.c.d' of an IPv4 address: its four decimal fields
Dotted(a, b, c, d) == <<Digits(a), Digits(b), Digits(c), Digits(d)>>

\* socket.inet_ntoa: 4 packed bytes -> dotted-quad text
inet_ntoa(b) == Dotted(b[1], b[2], b[3], b[4])

\* socket.inet_aton: dotted-quad text -> 4 packed bytes
inet_aton(ip) == <<Value(ip[1]), Value(ip[2]), Value(ip[3]), Value(ip[4])>>

RECURSIVE BitOr(_, _)
\* Python's a | b on non-negative integers
BitOr(a, b) ==
    IF a = 0 THEN b
    ELSE IF b = 0 THEN a
    ELSE (IF a % 2 = 1 \/ b % 2 = 1 THEN 1 ELSE 0) + 2 * BitOr(a \div 2, b \div 2)

RECURSIVE BitAnd(_, _)
\* Python's a & b on non-negative integers
BitAnd(a, b) ==
    IF a = 0 \/ b = 0 THEN 0
    ELSE (IF a % 2 = 1 /\ b % 2 = 1 THEN 1 ELSE 0) + 2 * BitAnd(a \div 2, b \div 2)

(* ---------------- frame codec ---------------- *)

\* variant: the body is everything after the header, total_length ignored
parse_header_whole_datagram(data) ==
    IF Len(data) < 6 THEN NoFrame
    ELSE [header_len   |-> data[1],
          version      |-> data[2],
          service_type |-> UnpackH(Slice(data, 2, 4)),
          total_len    |-> UnpackH(Slice(data, 4, 6)),
          body         |-> Slice(data, 6, Len(data))]

parse_header(data) ==
    IF Len(data) < 6 THEN NoFrame
    ELSE LET total_len == UnpackH(Slice(data, 4, 6))
         IN  [header_len   |-> data[1],
              version      |-> data[2],
              service_type |-> UnpackH(Slice(data, 2, 4)),
              total_len    |-> total_len,
              body         |-> IF total_len >= 6
                               THEN Slice(data, 6, 6 + (total_len - 6))
                               ELSE Slice(data, 6, Len(data))]

\* variant: total_length counts the body only
build_header_body_only(service_type, body_len) ==
    <<6, 16>> \o PackH(service_type) \o PackH(body_len)

build_header(service_type, body_len) ==
    <<6, 16>> \o PackH(service_type) \o PackH(6 + body_len)

(* ---------------- cEMI inspector ---------------- *)

build_cemi_group_write(group_addr, value_bool) ==
    <<41, 0, 188, 224, 17, 250>> \o PackH(group_addr)
        \o <<1, 0, IF value_bool THEN 129 ELSE 128>>

\* variant: a payload below the minimum length is taken for a write
is_group_write_short_is_write(cemi_data) ==
    IF Len(cemi_data) < 10 THEN TRUE
    ELSE LET add_info_len  == cemi_data[2]
             tpci_apci_pos == 2 + add_info_len + 1 + 1 + 2 + 2 + 1
         IN  IF Len(cemi_data) <= tpci_apci_pos THEN FALSE
             ELSE IF Len(cemi_data) <= tpci_apci_pos + 1 THEN FALSE
             ELSE LET tpci_apci_byte == cemi_data[tpci_apci_pos + 1]
                      apci_upper     == BitAnd(tpci_apci_byte, 3) * 64
                      apci_data_byte == cemi_data[tpci_apci_pos + 2]
                      apci_lower     == BitAnd(apci_data_byte, 192)
                      apci           == BitOr(apci_upper, apci_lower)
                  IN  apci = 128

is_group_write(cemi_data) ==
    IF Len(cemi_data) < 10 THEN FALSE
    ELSE LET add_info_len  == cemi_data[2]
             tpci_apci_pos == 2 + add_info_len + 1 + 1 + 2 + 2 + 1
         IN  IF Len(cemi_data) <= tpci_apci_pos THEN FALSE
             ELSE IF Len(cemi_data) <= tpci_apci_pos + 1 THEN FALSE
             ELSE LET tpci_apci_byte == cemi_data[tpci_apci_pos + 1]
                      apci_upper     == BitAnd(tpci_apci_byte, 3) * 64
                      apci_data_byte == cemi_data[tpci_apci_pos + 2]
                      apci_lower     == BitAnd(apci_data_byte, 192)
                      apci           == BitOr(apci_upper, apci_lower)
                  IN  apci = 128

(* ---------------- session table and handlers ---------------- *)

\* one sendto() call on the simulator's socket: the frame, the destination,
\* and whether the call returned (ok) or raised OSError
Send(frame, to, ok) == [frame |-> frame, to |-> to, ok |-> ok]

\* `del self.channels[channel_id]`
Remove(tbl, c) == [k \in DOMAIN tbl \ {c} |-> tbl[k]]

\* `self.channels[channel_id] = v`
Put(tbl, c, v) == (c :> v) @@ tbl

\* variant: the allocator wraps from 255 back to 1
handle_connect_request_wrap(data, client_addr) ==
    LET channel_id == next_channel
        body == <<channel_id, STATUS_OK>>
                  \o <<8, 1>> \o <<0, 0, 0, 0>> \o PackH(0)
                  \o <<4, 4>> \o PackH(512)
    IN  [channels     |-> Put(channels, channel_id, <<client_addr, 0>>),
         next_channel |-> (next_channel % 255) + 1,
         raised       |-> channel_id > 255,
         response     |-> IF channel_id > 255 THEN None
                          ELSE build_header(SERVICE_CONNECT_RESPONSE, Len(body)) \o body]

\* variant: the session's peer is the control endpoint HPAI of the request
handle_connect_request_store_hpai(data, client_addr) ==
    LET channel_id == next_channel
        peer == IF Len(data) >= 8 /\ data[1] = 8 /\ data[2] = 1
                THEN <<inet_ntoa(Slice(data, 2, 6)), UnpackH(Slice(data, 6, 8))>>
                ELSE client_addr
        body == <<channel_id, STATUS_OK>>
                  \o <<8, 1>> \o <<0, 0, 0, 0>> \o PackH(0)
                  \o <<4, 4>> \o PackH(512)
    IN  [channels     |-> Put(channels, channel_id, <<peer, 0>>),
         next_channel |-> next_channel + 1,
         raised       |-> channel_id > 255,
         response     |-> IF channel_id > 255 THEN None
                          ELSE build_header(SERVICE_CONNECT_RESPONSE, Len(body)) \o body]

\* variant: the id is one more than the number of open sessions
handle_connect_request_by_open_count(data, client_addr) ==
    LET channel_id == Cardinality(DOMAIN channels) + 1
        body == <<channel_id, STATUS_OK>>
                  \o <<8, 1>> \o <<0, 0, 0, 0>> \o PackH(0)
                  \o <<4, 4>> \o PackH(512)
    IN  [channels     |-> Put(channels, channel_id, <<client_addr, 0>>),
         next_channel |-> next_channel + 1,
         raised       |-> channel_id > 255,
         response     |-> IF channel_id > 255 THEN None
                          ELSE build_header(SERVICE_CONNECT_RESPONSE, Len(body)) \o body]

\* variant: the allocator hands out the lowest id that is not open
handle_connect_request_reuse(data, client_addr) ==
    LET channel_id == CHOOSE c \in 1..(Cardinality(DOMAIN channels) + 1) :
                          /\ c \notin DOMAIN channels
                          /\ \A k \in 1..(c - 1) : k \in DOMAIN channels
        body == <<channel_id, STATUS_OK>>
                  \o <<8, 1>> \o <<0, 0, 0, 0>> \o PackH(0)
                  \o <<4, 4>> \o PackH(512)
    IN  [channels     |-> Put(channels, channel_id, <<client_addr, 0>>),
         next_channel |-> next_channel + 1,
         raised       |-> channel_id > 255,
         response     |-> IF channel_id > 255 THEN None
                          ELSE build_header(SERVICE_CONNECT_RESPONSE, Len(body)) \o body]

handle_connect_request(data, client_addr) ==
    LET channel_id == next_channel
        body == <<channel_id, STATUS_OK>>
                  \o <<8, 1>> \o <<0, 0, 0, 0>> \o PackH(0)
                  \o <<4, 4>> \o PackH(512)
    IN  [channels     |-> Put(channels, channel_id, <<client_addr, 0>>),
         next_channel |-> next_channel + 1,
         \* struct.pack('BB', channel_id, STATUS_OK) raises struct.error
         \* when channel_id does not fit one byte
         raised       |-> channel_id > 255,
         response     |-> IF channel_id > 255 THEN None
                          ELSE build_header(SERVICE_CONNECT_RESPONSE, Len(body)) \o body]

\* variant: one body byte is enough to close a channel
handle_disconnect_request_one_byte(data, client_addr) ==
    IF Len(data) < 1
    THEN [channels |-> channels, response |-> None]
    ELSE LET channel_id == data[1]
             body == <<channel_id, STATUS_OK>>
         IN  [channels |-> IF channel_id \in DOMAIN channels
                           THEN Remove(channels, channel_id) ELSE channels,
              response |-> build_header(SERVICE_DISCONNECT_RESPONSE, Len(body)) \o body]

\* variant: the response is built but the session is never deleted
handle_disconnect_request_keep(data, client_addr) ==
    IF Len(data) < 2
    THEN [channels |-> channels, response |-> None]
    ELSE LET channel_id == data[1]
             body == <<channel_id, STATUS_OK>>
         IN  [channels |-> channels,
              response |-> build_header(SERVICE_DISCONNECT_RESPONSE, Len(body)) \o body]

handle_disconnect_request(data, client_addr) ==
    IF Len(data) < 2
    THEN [channels |-> channels, response |-> None]
    ELSE LET channel_id == data[1]
             body == <<channel_id, STATUS_OK>>
         IN  [channels |-> IF channel_id \in DOMAIN channels
                           THEN Remove(channels, channel_id) ELSE channels,
              response |-> build_header(SERVICE_DISCONNECT_RESPONSE, Len(body)) \o body]

\* variant: the heartbeat reports E_CONNECTION_ID (0x21) for a channel that is not open
handle_connectionstate_request_liveness(data, client_addr) ==
    IF Len(data) < 2 THEN None
    ELSE LET channel_id == data[1]
             body == <<channel_id, IF channel_id \in DOMAIN channels THEN STATUS_OK ELSE 33>>
         IN  build_header(SERVICE_CONNECTIONSTATE_RESPONSE, Len(body)) \o body

handle_connectionstate_request(data, client_addr) ==
    IF Len(data) < 2 THEN None
    ELSE LET channel_id == data[1]
             body == <<channel_id, STATUS_OK>>
         IN  build_header(SERVICE_CONNECTIONSTATE_RESPONSE, Len(body)) \o body

\* variant: one sequence counter shared by all sessions
send_tunneling_indication_shared_counter(channel_id, cemi_data, sendOk) ==
    IF channel_id \notin DOMAIN channels
    THEN [channels |-> channels, sends |-> <<>>, raised |-> FALSE]
    ELSE LET client_addr == channels[channel_id][1]
             sequence    == channels[channel_id][2]
             conn_header == <<4, channel_id, sequence, 0>>
             body        == conn_header \o cemi_data
             frame       == build_header(SERVICE_TUNNELING_INDICATION, Len(body)) \o body
         IN  [channels |-> IF sendOk
                           THEN [k \in DOMAIN channels |->
                                    <<channels[k][1], (channels[k][2] + 1) % 256>>]
                           ELSE channels,
              sends    |-> <<Send(frame, client_addr, sendOk)>>,
              raised   |-> ~sendOk]

\* variant: the stored counter is written back without the increment
send_tunneling_indication_no_increment(channel_id, cemi_data, sendOk) ==
    IF channel_id \notin DOMAIN channels
    THEN [channels |-> channels, sends |-> <<>>, raised |-> FALSE]
    ELSE LET client_addr == channels[channel_id][1]
             sequence    == channels[channel_id][2]
             conn_header == <<4, channel_id, sequence, 0>>
             body        == conn_header \o cemi_data
             frame       == build_header(SERVICE_TUNNELING_INDICATION, Len(body)) \o body
         IN  [channels |-> Put(channels, channel_id, <<client_addr, sequence>>),
              sends    |-> <<Send(frame, client_addr, sendOk)>>,
              raised   |-> ~sendOk]

\* sendOk: whether self.sock.sendto(frame, client_addr) returns or raises
send_tunneling_indication(channel_id, cemi_data, sendOk) ==
    IF channel_id \notin DOMAIN channels
    THEN [channels |-> channels, sends |-> <<>>, raised |-> FALSE]
    ELSE LET client_addr == channels[channel_id][1]
             sequence    == channels[channel_id][2]
             conn_header == <<4, channel_id, sequence, 0>>
             body        == conn_header \o cemi_data
             frame       == build_header(SERVICE_TUNNELING_INDICATION, Len(body)) \o body
         IN  [channels |-> IF sendOk
                           THEN Put(channels, channel_id, <<client_addr, (sequence + 1) % 256>>)
                           ELSE channels,
              sends    |-> <<Send(frame, client_addr, sendOk)>>,
              raised   |-> ~sendOk]

\* variant: a write naming a channel that is not open is echoed to its sender
handle_tunneling_request_echo_unknown(data, client_addr, sendOk) ==
    IF Len(data) < 4
    THEN [channels |-> channels, sends |-> <<>>, raised |-> FALSE, response |-> None]
    ELSE LET conn_header == Slice(data, 0, 4)
             channel_id  == conn_header[2]
             cemi_data   == Slice(data, 4, Len(data))
             body        == conn_header \o <<STATUS_OK>>
             response    == build_header(SERVICE_TUNNELING_ACK, Len(body)) \o body
             echo        == build_header(SERVICE_TUNNELING_INDICATION, 4 + Len(cemi_data))
                                \o <<4, channel_id, 0, 0>> \o cemi_data
         IN  IF Len(cemi_data) > 0 /\ is_group_write(cemi_data)
             THEN IF channel_id \in DOMAIN channels
                  THEN LET ind == send_tunneling_indication(channel_id, cemi_data, sendOk)
                       IN  [channels |-> ind.channels, sends |-> ind.sends,
                            raised   |-> ind.raised,
                            response |-> IF ind.raised THEN None ELSE response]
                  ELSE [channels |-> channels, sends |-> <<Send(echo, client_addr, sendOk)>>,
                        raised |-> ~sendOk,
                        response |-> IF sendOk THEN response ELSE None]
             ELSE [channels |-> channels, sends |-> <<>>, raised |-> FALSE,
                   response |-> response]

\* variant: every non-empty cEMI is echoed, whatever its primitive
handle_tunneling_request_echo_all(data, client_addr, sendOk) ==
    IF Len(data) < 4
    THEN [channels |-> channels, sends |-> <<>>, raised |-> FALSE, response |-> None]
    ELSE LET conn_header == Slice(data, 0, 4)
             channel_id  == conn_header[2]
             cemi_data   == Slice(data, 4, Len(data))
             body        == conn_header \o <<STATUS_OK>>
             response    == build_header(SERVICE_TUNNELING_ACK, Len(body)) \o body
         IN  IF Len(cemi_data) > 0
             THEN LET ind == send_tunneling_indication(channel_id, cemi_data, sendOk)
                  IN  [channels |-> ind.channels, sends |-> ind.sends,
                       raised   |-> ind.raised,
                       response |-> IF ind.raised THEN None ELSE response]
             ELSE [channels |-> channels, sends |-> <<>>, raised |-> FALSE,
                   response |-> response]

handle_tunneling_request(data, client_addr, sendOk) ==
    IF Len(data) < 4
    THEN [channels |-> channels, sends |-> <<>>, raised |-> FALSE, response |-> None]
    ELSE LET conn_header == Slice(data, 0, 4)
             channel_id  == conn_header[2]
             cemi_data   == Slice(data, 4, Len(data))
             body        == conn_header \o <<STATUS_OK>>
             response    == build_header(SERVICE_TUNNELING_ACK, Len(body)) \o body
         IN  IF Len(cemi_data) > 0 /\ is_group_write(cemi_data)
             THEN LET ind == send_tunneling_indication(channel_id, cemi_data, sendOk)
                  IN  [channels |-> ind.channels, sends |-> ind.sends,
                       raised   |-> ind.raised,
                       response |-> IF ind.raised THEN None ELSE response]
             ELSE [channels |-> channels, sends |-> <<>>, raised |-> FALSE,
                   response |-> response]

\* variant: the advertised HPAI carries its port in little-endian order
search_response_little_endian(server_ip, self_port) ==
    LET body == <<8, 1>> \o inet_aton(server_ip) \o <<self_port % 256, self_port \div 256>>
    IN  build_header(SERVICE_SEARCH_RESPONSE, Len(body)) \o body

\* the SEARCH_RESPONSE frame: header, then the HPAI of the server as
\* struct.pack('>BB4sH', 0x08, 0x01, inet_aton(server_ip), self.port)
search_response(server_ip, self_port) ==
    LET body == <<8, 1>> \o inet_aton(server_ip) \o PackH(self_port)
    IN  build_header(SERVICE_SEARCH_RESPONSE, Len(body)) \o body

\* variant: a failed SEARCH_RESPONSE send is retried towards the UDP source
handle_search_request_fallback(data, client_addr, probeOk, local_ip, sendOk) ==
    LET hpai   == Len(data) >= 8 /\ data[1] = 8 /\ data[2] = 1
        target == IF hpai
                  THEN <<inet_ntoa(Slice(data, 2, 6)), UnpackH(Slice(data, 6, 8))>>
                  ELSE client_addr
        server_ip == IF probeOk THEN local_ip ELSE Dotted(0, 0, 0, 0)
        body     == <<8, 1>> \o inet_aton(server_ip) \o PackH(port)
        response == build_header(SERVICE_SEARCH_RESPONSE, Len(body)) \o body
    IN  IF sendOk THEN <<Send(response, target, TRUE)>>
        ELSE <<Send(response, target, FALSE), Send(response, client_addr, TRUE)>>

\* variant: the HPAI test looks at the length byte only
handle_search_request_any_proto(data, client_addr, probeOk, local_ip, sendOk) ==
    LET hpai   == Len(data) >= 8 /\ data[1] = 8
        target == IF hpai
                  THEN <<inet_ntoa(Slice(data, 2, 6)), UnpackH(Slice(data, 6, 8))>>
                  ELSE client_addr
        server_ip == IF probeOk THEN local_ip ELSE Dotted(0, 0, 0, 0)
        body     == <<8, 1>> \o inet_aton(server_ip) \o PackH(port)
        response == build_header(SERVICE_SEARCH_RESPONSE, Len(body)) \o body
    IN  <<Send(response, target, sendOk)>>

\* variant: the SEARCH_RESPONSE always goes back to the UDP source address
handle_search_request_to_sender(data, client_addr, probeOk, local_ip, sendOk) ==
    LET server_ip == IF probeOk THEN local_ip ELSE Dotted(0, 0, 0, 0)
        body     == <<8, 1>> \o inet_aton(server_ip) \o PackH(port)
        response == build_header(SERVICE_SEARCH_RESPONSE, Len(body)) \o body
    IN  <<Send(response, client_addr, sendOk)>>

\* probeOk: whether connecting the throwaway socket and reading its local
\* endpoint succeeded; local_ip: the address getsockname() reports;
\* sendOk: whether the sendto of the SEARCH_RESPONSE returns or raises
handle_search_request(data, client_addr, probeOk, local_ip, sendOk) ==
    LET hpai   == Len(data) >= 8 /\ data[1] = 8 /\ data[2] = 1
        target == IF hpai
                  THEN <<inet_ntoa(Slice(data, 2, 6)), UnpackH(Slice(data, 6, 8))>>
                  ELSE client_addr
        server_ip == IF probeOk THEN local_ip ELSE Dotted(0, 0, 0, 0)
        response == search_response(server_ip, port)
    IN  <<Send(response, target, sendOk)>>

(* ---------------- inputs: peers and datagrams ---------------- *)

\* UDP source addresses of the peers
Addrs == { <<Dotted(192, 0, 2, 10), 50000>>, <<Dotted(192, 0, 2, 11), 50001>> }

\* addresses the routing table can select for the throwaway socket
LocalIps == { Dotted(192, 0, 2, 1) }

\* channel ids named by the peers' requests
ChanIds == {1, 2, 255}

\* incoming sequence values used by the peers
InSeqs == {0, 7}

\* a datagram: header bytes as given, followed by the bytes actually present
Frame(hl, ver, st, total, avail) == <<hl, ver>> \o PackH(st) \o PackH(total) \o avail

\* HPAI bytes [8, 1, ip, port] for the address text ip
Hpai(ip, p) == <<8, 1>> \o inet_aton(ip) \o PackH(p)

cemiWrite == build_cemi_group_write(2564, TRUE)
cemiRead == <<17, 0, 188, 224, 17, 250, 10, 4, 1, 0, 0>>
cemiResponse == <<17, 0, 188, 224, 17, 250, 10, 4, 1, 0, 65>>
cemiWriteAddInfo == <<17, 1, 170, 188, 224, 17, 250, 10, 4, 1, 0, 128>>
cemiUpperBits == <<17, 0, 188, 224, 17, 250, 10, 4, 1, 2, 0>>
cemiShort == SubSeq(cemiWrite, 1, 9)
cemiNoTail == SubSeq(cemiWrite, 1, 10)
cemiOverrun == <<17, 5, 188, 224, 17, 250, 10, 4, 1, 0, 128>>

\* cEMI payloads sent on channels 1 and 255 with incoming sequence 0
Cemis == {cemiRead, cemiResponse, cemiUpperBits, cemiShort, cemiNoTail,
          cemiOverrun, <<>>}

ConnectBodies == { <<>>, Hpai(Dotted(0, 0, 0, 0), 0) \o Hpai(Dotted(0, 0, 0, 0), 0) \o <<4, 4, 2, 0>>,
                   Hpai(Dotted(192, 0, 2, 5), 40000) \o Hpai(Dotted(192, 0, 2, 5), 40001) \o <<4, 4, 2, 0>> }
ChannelBodies == { <<c, 0>> : c \in ChanIds } \cup { <<1>>, <<>> }
TunnelBodies ==
    { <<4, c, s, 0>> \o cemiWrite : c \in ChanIds, s \in InSeqs }
    \cup { <<4, 1, 0, 0>> \o cemiWriteAddInfo }
    \cup { <<4, c, 0, 0>> \o m : c \in {1, 255}, m \in Cemis }
    \cup { <<4, 1, 0>> }
SearchBodies == { Hpai(Dotted(192, 0, 2, 5), 40000), <<8, 2>> \o inet_aton(Dotted(192, 0, 2, 5)) \o PackH(40000),
                  <<8, 1, 192>>, <<>> }
AckBodies == { <<4, 1, 0, 0>>, <<4, 1>> }

\* (service type, body) of the requests the peers send
Requests ==
    { <<SERVICE_CONNECT_REQUEST, b>> : b \in ConnectBodies }
    \cup { <<SERVICE_DISCONNECT_REQUEST, b>> : b \in ChannelBodies }
    \cup { <<SERVICE_CONNECTIONSTATE_REQUEST, b>> : b \in ChannelBodies }
    \cup { <<SERVICE_TUNNELING_REQUEST, b>> : b \in TunnelBodies }
    \cup { <<SERVICE_SEARCH_REQUEST, b>> : b \in SearchBodies }
    \cup { <<SERVICE_TUNNELING_ACK, b>> : b \in AckBodies }
    \cup { <<SERVICE_SEARCH_RESPONSE, <<>>>>, <<515, <<1, 0>>>> }

\* requests that are also sent with a damaged header or length field
Probes ==
    { <<SERVICE_CONNECT_REQUEST, <<>>>>,
      <<SERVICE_DISCONNECT_REQUEST, <<1, 0>>>>,
      <<SERVICE_CONNECTIONSTATE_REQUEST, <<1, 0>>>>,
      <<SERVICE_TUNNELING_REQUEST, <<4, 1, 0, 0>> \o cemiWrite>>,
      <<SERVICE_SEARCH_REQUEST, Hpai(Dotted(192, 0, 2, 5), 40000)>> }

WellFormed == { Frame(6, 16, r[1], 6 + Len(r[2]), r[2]) : r \in Requests }
BadHeaderLen == { Frame(5, 16, r[1], 6 + Len(r[2]), r[2]) : r \in Probes }
BadVersion == { Frame(6, 17, r[1], 6 + Len(r[2]), r[2]) : r \in Probes }
\* total_length declares more bytes than were received
Truncated == { Frame(6, 16, r[1], 6 + Len(r[2]) + 20, r[2]) : r \in Probes }
\* bytes received beyond total_length
Padded == { Frame(6, 16, r[1], 6 + Len(r[2]), r[2] \o <<170, 187>>) : r \in Probes }
\* total_length below the header size
ShortTotal == { Frame(6, 16, r[1], 4, r[2]) : r \in Probes }
\* fewer than 6 bytes
Runts == { <<>>, <<6, 16, 2, 5, 0>> }

Datagrams == WellFormed \cup BadHeaderLen \cup BadVersion \cup Truncated
             \cup Padded \cup ShortTotal \cup Runts

\* start states: a fresh simulator; one whose first 254 channels were opened
\* and closed again; one whose channel 1 has echoed 255 writes
Starts ==
    { [channels |-> <<>>, next_channel |-> 1, ind_seqs |-> <<>>, connects |-> 0],
      [channels |-> <<>>, next_channel |-> 255, ind_seqs |-> <<>>, connects |-> 254],
      [channels |-> (1 :> << <<Dotted(192, 0, 2, 10), 50000>>, 255 >>), next_channel |-> 2,
       ind_seqs |-> (1 :> [i \in 1..255 |-> i - 1]), connects |-> 1] }

(* ---------------- the receive loop ---------------- *)

Init ==
    /\ \E s \in Starts : /\ channels = s.channels
                         /\ next_channel = s.next_channel
                         /\ ind_seqs = s.ind_seqs
                         /\ connects = s.connects
    /\ pc = "receiving"
    /\ last = [data |-> <<>>, addr |-> <<Dotted(0, 0, 0, 0), 0>>, service |-> "none"]
    /\ out = <<>>
    /\ prev = [channels |-> channels, next_channel |-> next_channel]
    /\ steps = 0
    /\ probe = [op |-> "none"]
    /\ tmp = 0

\* the datagrams recvfrom can return whose header parses to service type st
Of(st) == { d \in Datagrams : Len(d) >= 6 /\ parse_header(d).service_type = st }

\* the sequence bytes of the TUNNELING_INDICATION frames among sends that
\* name channel c, in the order sent
IndSeqsOf(sends, c) ==
    LET on(x) == /\ UnpackH(Slice(x.frame, 2, 4)) = SERVICE_TUNNELING_INDICATION
                 /\ x.frame[8] = c
        sel   == SelectSeq(sends, on)
    IN  [i \in 1..Len(sel) |-> sel[i].frame[9]]

\* one loop iteration: the handler's effect on the session table, the sends
\* it made itself, then `if response: self.sock.sendto(response,
\* client_addr)`; an exception that is not KeyboardInterrupt leaves the loop.
\* unclosed: throwaway sockets the handler created and did not close
Iteration(service, d, client_addr, ch, nc, sends, raised, response, replyOk, unclosed) ==
    /\ last' = [data |-> d, addr |-> client_addr, service |-> service]
    /\ prev' = [channels |-> channels, next_channel |-> next_channel]
    /\ channels' = ch
    /\ next_channel' = nc
    /\ out' = IF raised \/ response = None THEN sends
              ELSE Append(sends, Send(response, client_addr, replyOk))
    /\ pc' = IF raised \/ (response # None /\ ~replyOk) THEN "crashed" ELSE "receiving"
    /\ steps' = steps + 1
    /\ probe' = probe
    /\ tmp' = tmp + unclosed
    /\ connects' = connects + (IF service = "connect" THEN 1 ELSE 0)
    /\ ind_seqs' = [c \in DOMAIN ch |->
                       (IF c \in DOMAIN ind_seqs THEN ind_seqs[c] ELSE <<>>)
                           \o IndSeqsOf(sends, c)]

\* an iteration whose handler creates no socket of its own
Finish(service, d, client_addr, ch, nc, sends, raised, response, replyOk) ==
    Iteration(service, d, client_addr, ch, nc, sends, raised, response, replyOk, 0)

Receiving == pc = "receiving" /\ steps < MaxSteps

InvalidFrame ==
    \E d \in Datagrams, client_addr \in Addrs :
        /\ Receiving
        /\ parse_header(d) = NoFrame
        /\ Finish("invalid", d, client_addr, channels, next_channel, <<>>, FALSE, None, TRUE)

ConnectRequest ==
    \E d \in Of(SERVICE_CONNECT_REQUEST), client_addr \in Addrs, replyOk \in BOOLEAN :
        /\ Receiving
        /\ LET r == handle_connect_request(parse_header(d).body, client_addr)
           IN  Finish("connect", d, client_addr, r.channels, r.next_channel, <<>>,
                      r.raised, r.response, replyOk)

DisconnectRequest ==
    \E d \in Of(SERVICE_DISCONNECT_REQUEST), client_addr \in Addrs, replyOk \in BOOLEAN :
        /\ Receiving
        /\ LET r == handle_disconnect_request(parse_header(d).body, client_addr)
           IN  Finish("disconnect", d, client_addr, r.channels, next_channel, <<>>,
                      FALSE, r.response, replyOk)

TunnelingRequest ==
    \E d \in Of(SERVICE_TUNNELING_REQUEST), client_addr \in Addrs,
       sendOk \in BOOLEAN, replyOk \in BOOLEAN :
        /\ Receiving
        /\ LET r == handle_tunneling_request(parse_header(d).body, client_addr, sendOk)
           IN  Finish("tunneling", d, client_addr, r.channels, next_channel, r.sends,
                      r.raised, r.response, replyOk)

ConnectionstateRequest ==
    \E d \in Of(SERVICE_CONNECTIONSTATE_REQUEST), client_addr \in Addrs, replyOk \in BOOLEAN :
        /\ Receiving
        /\ LET r == handle_connectionstate_request(parse_header(d).body, client_addr)
           IN  Finish("connectionstate", d, client_addr, channels, next_channel, <<>>,
                      FALSE, r, replyOk)

\* `tmp.close()` is the last statement of the try block that creates and
\* connects the throwaway socket: when connect or getsockname raises it is
\* skipped and the socket stays open until the runtime finalises the
\* unreferenced object, at the handler's return (finalised) or later
SearchRequest ==
    \E d \in Of(SERVICE_SEARCH_REQUEST), client_addr \in Addrs,
       probeOk \in BOOLEAN, local_ip \in LocalIps, sendOk \in BOOLEAN,
       finalised \in BOOLEAN :
        /\ Receiving
        /\ probeOk => finalised
        /\ LET s == handle_search_request(parse_header(d).body, client_addr,
                                          probeOk, local_ip, sendOk)
           IN  Iteration("search", d, client_addr, channels, next_channel, s,
                         FALSE, None, TRUE, IF probeOk \/ finalised THEN 0 ELSE 1)

\* variant: a received ACK is answered by echoing it to its sender
TunnelingAck_echo ==
    \E d \in Of(SERVICE_TUNNELING_ACK), client_addr \in Addrs :
        /\ Receiving
        /\ Finish("ack", d, client_addr, channels, next_channel, <<>>, FALSE, d, TRUE)

TunnelingAck ==
    \E d \in Of(SERVICE_TUNNELING_ACK), client_addr \in Addrs :
        /\ Receiving
        /\ Finish("ack", d, client_addr, channels, next_channel, <<>>, FALSE, None, TRUE)

UnknownService ==
    \E d \in Datagrams, client_addr \in Addrs :
        /\ Receiving
        /\ Len(d) >= 6
        /\ parse_header(d).service_type \notin
               {SERVICE_CONNECT_REQUEST, SERVICE_DISCONNECT_REQUEST,
                SERVICE_TUNNELING_REQUEST, SERVICE_CONNECTIONSTATE_REQUEST,
                SERVICE_SEARCH_REQUEST, SERVICE_TUNNELING_ACK}
        /\ Finish("unknown", d, client_addr, channels, next_channel, <<>>, FALSE, None, TRUE)

\* Ctrl+C while blocked in recvfrom
KeyboardInterrupt ==
    /\ pc = "receiving"
    /\ pc' = "stopped"
    /\ UNCHANGED <<channels, next_channel, last, out, prev, steps, ind_seqs, probe, tmp, connects>>

Next ==
    \/ InvalidFrame
    \/ ConnectRequest
    \/ DisconnectRequest
    \/ TunnelingRequest
    \/ ConnectionstateRequest
    \/ SearchRequest
    \/ TunnelingAck
    \/ UnknownService
    \/ KeyboardInterrupt

Spec == Init /\ [][Next]_vars

(* ---------------- the codecs on their own ---------------- *)

\* knx_search.build_search_request: the SEARCH_REQUEST the discovery client
\* sends, carrying the HPAI of (hpai_ip, hpai_port)
build_search_request(hpai_ip, hpai_port) ==
    LET payload == <<8, 1>> \o inet_aton(hpai_ip) \o PackH(hpai_port)
    IN  <<6, 16>> \o PackH(513) \o PackH(6 + Len(payload)) \o payload

\* knx_search.parse_search_response: the (ip, port) of the first byte pair
\* 08 01 found from offset 6 on, None when a header check fails or no pair
\* is found; `range(6, len(buf) - 7)` are the 0-based offsets tried
parse_search_response(buf) ==
    IF Len(buf) < 6 THEN None
    ELSE IF buf[1] # 6 THEN None
    ELSE IF buf[2] # 16 THEN None
    ELSE IF UnpackH(Slice(buf, 2, 4)) # 514 THEN None
    ELSE IF UnpackH(Slice(buf, 4, 6)) > Len(buf) THEN None
    ELSE LET hits == { i \in 6..(Len(buf) - 8) : buf[i + 1] = 8 /\ buf[i + 2] = 1 }
         IN  IF hits = {} THEN None
             ELSE LET i == CHOOSE h \in hits : \A j \in hits : h <= j
                  IN  <<inet_ntoa(Slice(buf, i + 2, i + 6)),
                        UnpackH(Slice(buf, i + 6, i + 8))>>

\* knx_search.build_search_response: the simulated SearchResponse of
\* --simulate-response; buf starts with protocol_version
build_search_response(server_ip, server_port) ==
    LET payload == <<8, 1>> \o inet_aton(server_ip) \o PackH(server_port)
    IN  <<16>> \o PackH(514) \o PackH(6 + Len(payload)) \o payload

\* service types, body lengths beyond the requests' and bodies put through
\* the frame codec
CodecServices ==
    {0, 65535, SERVICE_SEARCH_REQUEST, SERVICE_SEARCH_RESPONSE, SERVICE_CONNECT_REQUEST,
     SERVICE_CONNECT_RESPONSE, SERVICE_CONNECTIONSTATE_REQUEST,
     SERVICE_CONNECTIONSTATE_RESPONSE, SERVICE_DISCONNECT_REQUEST,
     SERVICE_DISCONNECT_RESPONSE, SERVICE_TUNNELING_REQUEST, SERVICE_TUNNELING_ACK}
CodecLens == {250, 251, 2042, 65535 - 6}
CodecBodies ==
    { r[2] : r \in Requests } \cup { [i \in 1..n |-> (i * 37) % 256] : n \in CodecLens }

\* addresses, ports and leading byte pairs put through the HPAI codec
CodecIps == { Dotted(192, 0, 2, 5), Dotted(8, 1, 8, 1), Dotted(0, 0, 0, 0),
              Dotted(255, 255, 255, 255), Dotted(10, 100, 1, 9) }
CodecPorts == {0, 1, 255, 256, 2049, 40000, 65535}
CodecLeads == { <<8, 1>>, <<8, 2>>, <<7, 1>>, <<1, 8>>, <<0, 0>> }

CodecInit ==
    /\ channels = <<>>
    /\ next_channel = 1
    /\ ind_seqs = <<>>
    /\ pc = "receiving"
    /\ last = [data |-> <<>>, addr |-> <<Dotted(0, 0, 0, 0), 0>>, service |-> "none"]
    /\ out = <<>>
    /\ prev = [channels |-> channels, next_channel |-> next_channel]
    /\ steps = 0
    /\ tmp = 0
    /\ connects = 0
    /\ \/ \E st \in CodecServices, b \in CodecBodies :
             probe = [op |-> "frame", stage |-> "input", service_type |-> st, body |-> b]
       \/ \E ip \in CodecIps, p \in CodecPorts, ld \in CodecLeads, a \in Addrs :
             probe = [op |-> "hpai", stage |-> "input", ip |-> ip, port |-> p,
                      lead |-> ld, client_addr |-> a]
       \/ \E ip \in CodecIps, p \in CodecPorts, by \in {"simulator", "client"} :
             probe = [op |-> "response", stage |-> "input", ip |-> ip, port |-> p,
                      by |-> by]

Rest == <<channels, next_channel, pc, last, out, prev, steps, ind_seqs, tmp, connects>>

\* header(service_type, len(body)) followed by the body
EncodeFrame ==
    /\ probe.op = "frame" /\ probe.stage = "input"
    /\ probe' = [probe EXCEPT !.stage = "encoded"] @@
                [frame |-> build_header(probe.service_type, Len(probe.body)) \o probe.body]
    /\ UNCHANGED Rest

DecodeFrame ==
    /\ probe.op = "frame" /\ probe.stage = "encoded"
    /\ probe' = [probe EXCEPT !.stage = "decoded"] @@
                [decoded |-> parse_header(probe.frame)]
    /\ UNCHANGED Rest

\* the discovery client builds its request
BuildSearchRequest ==
    /\ probe.op = "hpai" /\ probe.stage = "input" /\ probe.lead = <<8, 1>>
    /\ probe' = [probe EXCEPT !.stage = "encoded"] @@
                [frame |-> build_search_request(probe.ip, probe.port)]
    /\ UNCHANGED Rest

\* some other peer sends an 8-byte block that does not start with (8, 1)
ForgeSearchRequest ==
    /\ probe.op = "hpai" /\ probe.stage = "input" /\ probe.lead # <<8, 1>>
    /\ probe' = [probe EXCEPT !.stage = "encoded"] @@
                [frame |-> Frame(6, 16, SERVICE_SEARCH_REQUEST, 14,
                                 probe.lead \o inet_aton(probe.ip) \o PackH(probe.port))]
    /\ UNCHANGED Rest

\* the simulator's SEARCH handler decodes the request's body
HandleSearchRequest ==
    /\ probe.op = "hpai" /\ probe.stage = "encoded"
    /\ \E probeOk \in BOOLEAN, local_ip \in LocalIps, sendOk \in BOOLEAN :
          probe' = [probe EXCEPT !.stage = "handled"] @@
                   [target |-> handle_search_request(parse_header(probe.frame).body,
                                   probe.client_addr, probeOk, local_ip, sendOk)[1].to]
    /\ UNCHANGED Rest

\* the simulator, listening on probe.port, advertises probe.ip
SendSearchResponse ==
    /\ probe.op = "response" /\ probe.stage = "input" /\ probe.by = "simulator"
    /\ probe' = [probe EXCEPT !.stage = "encoded"] @@
                [frame |-> search_response(probe.ip, probe.port)]
    /\ UNCHANGED Rest

\* the discovery client sends itself a simulated SearchResponse
SimulateResponse ==
    /\ probe.op = "response" /\ probe.stage = "input" /\ probe.by = "client"
    /\ probe' = [probe EXCEPT !.stage = "encoded"] @@
                [frame |-> build_search_response(probe.ip, probe.port)]
    /\ UNCHANGED Rest

\* the discovery client parses what it received
ParseSearchResponse ==
    /\ probe.op = "response" /\ probe.stage = "encoded"
    /\ probe' = [probe EXCEPT !.stage = "parsed"] @@
                [result |-> parse_search_response(probe.frame)]
    /\ UNCHANGED Rest

CodecNext ==
    \/ EncodeFrame
    \/ DecodeFrame
    \/ BuildSearchRequest
    \/ ForgeSearchRequest
    \/ HandleSearchRequest
    \/ SendSearchResponse
    \/ SimulateResponse
    \/ ParseSearchResponse

CodecSpec == CodecInit /\ [][CodecNext]_vars

(* ---------------- observations used by the properties ---------------- *)

\* the body handed to the handler of the last datagram
LastBody == parse_header(last.data).body

IsInd(s) == parse_header(s.frame).service_type = 1056
IsAck(s) == parse_header(s.frame).service_type = 1057

\* the cEMI of the last TUNNELING_REQUEST reaches the APCI tail byte
LastCemi == Slice(LastBody, 4, Len(LastBody))
Classifiable(m) == Len(m) >= 10 /\ Len(m) > 9 + m[2] + 1
\* low 2 bits of the TPCI/APCI byte shifted left 6, combined with the top
\* 2 bits of the following byte
Apci(m) == BitOr((m[9 + m[2] + 1] % 4) * 64, (m[9 + m[2] + 2] \div 64) * 64)

\* the last datagram's header is the one build_header would have written for
\* the bytes received: header_len 6, version 0x10, total_length = its length
HeaderOk ==
    /\ Len(last.data) >= 6
    /\ LET f == parse_header(last.data)
       IN  f.header_len = 6 /\ f.version = 16 /\ f.total_len = Len(last.data)

\* every sendto made for the last datagram returned
SendsOk == \A i \in DOMAIN out : out[i].ok

\* the session table and the allocator are as before the last datagram
TableUnchanged == channels = prev.channels
AllocatorUnchanged == next_channel = prev.next_channel

(* ---------------- C1 ---------------- *)

\* C1: every TUNNELING_INDICATION sent while handling a well-formed
\* TUNNELING_REQUEST is preceded, in the order of sends, by the TUNNELING_ACK
\* of that request (stated for requests all of whose sends succeeded).
C1_AckBeforeIndication ==
    (last.service = "tunneling" /\ HeaderOk /\ SendsOk) =>
        \A j \in DOMAIN out :
            IsInd(out[j]) => \E i \in 1..(j - 1) : IsAck(out[i])

(* ---------------- C2 ---------------- *)

\* C2: a TUNNELING_REQUEST naming an open channel c whose cEMI has APCI 0x80
\* produces exactly one TUNNELING_INDICATION with connection header
\* {4, c, s, 0}, s the stored counter before the send, carrying the request's
\* cEMI bytes, and afterwards the stored counter of c is (s + 1) mod 256.
C2_WriteEchoedOnce ==
    (/\ last.service = "tunneling"
     /\ HeaderOk
     /\ Len(LastBody) >= 4
     /\ LastBody[2] \in DOMAIN prev.channels
     /\ Classifiable(LastCemi)
     /\ Apci(LastCemi) = 128)
    => LET c    == LastBody[2]
           s    == prev.channels[c][2]
           inds == SelectSeq(out, IsInd)
       IN  /\ Len(inds) = 1
           /\ inds[1].frame = <<6, 16, 4, 32>> \o PackH(6 + 4 + Len(LastCemi))
                                  \o <<4, c, s, 0>> \o LastCemi
           /\ c \in DOMAIN channels
           /\ channels[c][2] = (s + 1) % 256

(* ---------------- C3 ---------------- *)

C4_ConnectAlwaysAnswered ==
    (last.service = "connect" /\ HeaderOk) =>
        /\ Len(out) = 1
        /\ LET f == parse_header(out[1].frame)
           IN  /\ f.service_type = 518
               /\ Len(f.body) >= 2
               /\ f.body[2] = 0
               /\ \A c \in 1..(prev.next_channel - 1) : f.body[1] > c

(* ---------------- C5 ---------------- *)

\* C5: a datagram whose header fails header_len == 6, version == 0x10 or the
\* total_length checks (total_length < 6, or total_length different from 6 +
\* the body bytes present) is rejected whole: nothing is sent and the session
\* table and the channel allocator are unchanged.
C5_BadHeaderRejected ==
    (/\ last.service # "none"
     /\ SendsOk
     /\ Len(last.data) >= 6
     /\ LET f == parse_header(last.data)
        IN  \/ f.header_len # 6
            \/ f.version # 16
            \/ f.total_len < 6
            \/ f.total_len # Len(last.data))
    => /\ out = <<>>
       /\ TableUnchanged
       /\ AllocatorUnchanged

(* ---------------- C6 ---------------- *)

\* C6: a datagram whose declared total_length exceeds the bytes received
\* produces no reply, whatever its service type, and opens no session.
C6_TruncatedNoReply ==
    (/\ last.service # "none"
     /\ SendsOk
     /\ Len(last.data) >= 6
     /\ parse_header(last.data).total_len > Len(last.data))
    => /\ out = <<>>
       /\ DOMAIN channels \subseteq DOMAIN prev.channels

(* ---------------- C7 ---------------- *)

\* C7: no per-datagram failure is fatal: after a well-formed datagram, also
\* one whose reply or indication send failed or whose response could not be
\* encoded, the receive loop is receiving again; it leaves the receiving
\* state only on the shutdown signal.
C7_NoFatalFailure ==
    (last.service = "none" \/ HeaderOk) => pc \in {"receiving", "stopped"}

(* ---------------- C8 ---------------- *)

\* C8: a CONNECTIONSTATE_REQUEST with at least 2 body bytes gets exactly the
\* CONNECTIONSTATE_RESPONSE {channel_id, 0}, sent to the sender, for every
\* channel id (open, closed again, never issued), and the session table is
\* unchanged.
C8_HeartbeatAlwaysOk ==
    (last.service = "connectionstate" /\ Len(LastBody) >= 2)
    => /\ Len(out) = 1
       /\ out[1].frame = <<6, 16, 2, 8, 0, 8, LastBody[1], 0>>
       /\ out[1].to = last.addr
       /\ TableUnchanged

\* C8 witness: the heartbeat names a channel that was issued and has been
\* closed again, and still got its response
C8_Witness ==
    /\ last.service = "connectionstate"
    /\ Len(LastBody) >= 2
    /\ LastBody[1] < next_channel
    /\ LastBody[1] \notin DOMAIN channels
    /\ Len(out) = 1

(* ---------------- C9 ---------------- *)

\* C9: a DISCONNECT_REQUEST with at least 2 body bytes naming c gets
\* DISCONNECT_RESPONSE {c, 0}; afterwards c is absent; every other session is
\* as before, and if c was not open the table is unchanged (so repeating the
\* request changes nothing).
C9_DisconnectRemovesOnlyC ==
    (last.service = "disconnect" /\ Len(LastBody) >= 2)
    => LET c == LastBody[1]
       IN  /\ Len(out) = 1
           /\ out[1].frame = <<6, 16, 2, 10, 0, 8, c, 0>>
           /\ out[1].to = last.addr
           /\ c \notin DOMAIN channels
           /\ DOMAIN channels = DOMAIN prev.channels \ {c}
           /\ \A k \in DOMAIN channels : channels[k] = prev.channels[k]
           /\ (c \notin DOMAIN prev.channels => TableUnchanged)

\* C9 witness: an open channel was closed while another session stayed open
C9_Witness ==
    /\ last.service = "disconnect"
    /\ Len(LastBody) >= 2
    /\ LastBody[1] \in DOMAIN prev.channels
    /\ LastBody[1] \notin DOMAIN channels
    /\ DOMAIN channels # {}
    /\ Len(out) = 1

(* ---------------- C10 ---------------- *)

\* C10: the SEARCH_RESPONSE goes to the address and port of the HPAI in the
\* first 8 body bytes when these start with (8, 1), whatever the UDP source
\* address; otherwise (shorter body, other first two bytes) to the UDP source
\* address of the request.
C10_SearchReplyTarget ==
    last.service = "search" =>
        /\ Len(out) = 1
        /\ parse_header(out[1].frame).service_type = 514
        /\ IF Len(LastBody) >= 8 /\ LastBody[1] = 8 /\ LastBody[2] = 1
           THEN /\ inet_aton(out[1].to[1]) = SubSeq(LastBody, 3, 6)
                /\ out[1].to[2] = LastBody[7] * 256 + LastBody[8]
           ELSE out[1].to = last.addr

\* C10 witness: a request carrying HPAI 192.0.2.5:40000 was answered there,
\* not at its UDP source address
C10_Witness ==
    /\ last.service = "search"
    /\ Len(out) = 1
    /\ out[1].to = << <<<<1, 9, 2>>, <<0>>, <<2>>, <<5>>>>, 40000 >>
    /\ out[1].to # last.addr

(* ---------------- C11 ---------------- *)

\* C11: a channel id goes absent -> open -> absent once: every id that becomes
\* open in a step was never issued before (it is not below the allocator, so
\* it is no closed id), a CONNECT_REQUEST opens exactly one id in its one
\* step, and no other step opens any.
C11_Lifecycle ==
    [][LET opened == DOMAIN channels' \ DOMAIN channels
       IN  /\ DOMAIN channels \subseteq 1..(next_channel - 1)
           /\ \A c \in opened : c >= next_channel
           /\ next_channel' >= next_channel
           /\ IF steps' # steps /\ last'.service = "connect"
              THEN Cardinality(opened) = 1
              ELSE opened = {}]_vars

\* C11 witness: on a fresh simulator channel 1 was opened and closed, and the
\* next CONNECT_REQUEST opened channel 2, leaving 1 absent
C11_Witness ==
    /\ last.service = "connect"
    /\ prev.next_channel = 2
    /\ 1 \notin DOMAIN channels
    /\ 2 \in DOMAIN channels

(* ---------------- C12 ---------------- *)

\* C12: a session starts with counter 0 at CONNECT, the n-th
\* TUNNELING_INDICATION sent on a channel (n from 0) carries sequence
\* n mod 256, and two successive indications on one channel carry consecutive,
\* hence different, sequence numbers, whichever peers sent the requests.
C12_SequenceNumbers ==
    /\ \A c \in DOMAIN ind_seqs :
          /\ \A n \in 1..Len(ind_seqs[c]) : ind_seqs[c][n] = (n - 1) % 256
          /\ \A n \in 1..(Len(ind_seqs[c]) - 1) :
                /\ ind_seqs[c][n + 1] = (ind_seqs[c][n] + 1) % 256
                /\ ind_seqs[c][n + 1] # ind_seqs[c][n]
    /\ last.service = "connect" =>
          /\ channels[prev.next_channel][2] = 0
          /\ ind_seqs[prev.next_channel] = <<>>

\* C12 witness: a channel has carried more than 256 indications, the last
\* one triggered by a peer other than the one that opened the channel
C12_Witness ==
    /\ last.service = "tunneling"
    /\ \E c \in DOMAIN channels :
          /\ Len(ind_seqs[c]) > 256
          /\ LastBody[2] = c
          /\ channels[c][1] # last.addr

(* ---------------- C13 ---------------- *)

\* C13: every TUNNELING_REQUEST with at least 4 body bytes is answered with
\* exactly one TUNNELING_ACK, whose body is the request's 4-byte connection
\* header followed by status 0, sent to the request's UDP source address,
\* whatever the incoming sequence and whether or not the channel is open.
C13_AlwaysAcked ==
    (last.service = "tunneling" /\ HeaderOk /\ Len(LastBody) >= 4)
    => LET acks == SelectSeq(out, IsAck)
       IN  /\ Len(acks) = 1
           /\ acks[1].frame = <<6, 16, 4, 33, 0, 11>> \o SubSeq(LastBody, 1, 4) \o <<0>>
           /\ acks[1].to = last.addr

(* ---------------- C14 ---------------- *)

\* C14: decoding header(service_type, len(b)) followed by b gives back body b
\* and service_type, with header_len 6, version 0x10 and total_length
\* 6 + len(b), for every service type and body with 6 + len(b) < 2^16.
C14_FrameRoundTrip ==
    (probe.op = "frame" /\ probe.stage = "decoded")
    => /\ probe.decoded.body = probe.body
       /\ probe.decoded.service_type = probe.service_type
       /\ probe.decoded.header_len = 6
       /\ probe.decoded.version = 16
       /\ probe.decoded.total_len = 6 + Len(probe.body)

\* C14 witness: a TUNNELING_REQUEST frame with the longest body (total_length
\* 65535) was encoded and decoded
C14_Witness ==
    /\ probe.op = "frame" /\ probe.stage = "decoded"
    /\ probe.service_type = 1056
    /\ Len(probe.body) = 65529
    /\ probe.decoded.total_len = 65535

(* ---------------- C15 ---------------- *)

\* C15: the HPAI [8, 1, ip, port] that build_search_request writes is decoded
\* by the SEARCH handler to exactly (ip, port), for every address and port;
\* an 8-byte block whose first two bytes are not (8, 1) is not decoded as an
\* HPAI (the reply target stays the UDP source address).
C15_HpaiRoundTrip ==
    (probe.op = "hpai" /\ probe.stage = "handled")
    => IF probe.lead = <<8, 1>>
       THEN probe.target = <<probe.ip, probe.port>>
       ELSE /\ probe.target = probe.client_addr
            /\ probe.target # <<probe.ip, probe.port>>

\* C15 witness: address 8.1.8.1 and port 0x0801, whose bytes repeat the
\* pair (8, 1), came back unchanged
C15_Witness ==
    /\ probe.op = "hpai" /\ probe.stage = "handled"
    /\ probe.lead = <<8, 1>>
    /\ probe.ip = <<<<8>>, <<1>>, <<8>>, <<1>>>>
    /\ probe.port = 2049
    /\ probe.target = <<probe.ip, 2049>>

(* ---------------- C16 ---------------- *)

\* C16: a cEMI payload shorter than 10 bytes, or one that does not reach one
\* byte past offset 9 + additional_info_len, is reported as not a
\* GroupValue_Write without any failure: the TUNNELING_REQUEST is still
\* acknowledged, no TUNNELING_INDICATION is sent, and the loop goes on unless
\* the ACK send itself failed.
C16_ShortCemiNotWrite ==
    (/\ last.service = "tunneling"
     /\ Len(LastBody) >= 4
     /\ ~Classifiable(LastCemi))
    => /\ ~is_group_write(LastCemi)
       /\ Len(out) = 1
       /\ out[1].frame = <<6, 16, 4, 33, 0, 11>> \o SubSeq(LastBody, 1, 4) \o <<0>>
       /\ out[1].to = last.addr
       /\ TableUnchanged
       /\ out[1].ok => pc # "crashed"

\* C16 witness: a 9-byte cEMI on an open channel was acknowledged, nothing else
C16_Witness ==
    /\ last.service = "tunneling"
    /\ Len(LastBody) >= 4
    /\ LastBody[2] \in DOMAIN channels
    /\ Len(LastCemi) = 9
    /\ Len(out) = 1 /\ IsAck(out[1])

(* ---------------- C17 ---------------- *)

\* C17: a cEMI payload long enough to classify is a GroupValue_Write exactly
\* when the low 2 bits of the byte at offset 9 + additional_info_len are 00
\* and the top 2 bits of the following byte are 10; every other pair of the
\* two 2-bit fields is not a Write.
C17_WriteIffFieldPair ==
    (/\ last.service = "tunneling"
     /\ HeaderOk
     /\ Len(LastBody) >= 4
     /\ Classifiable(LastCemi))
    => LET pos == 9 + LastCemi[2]
       IN  is_group_write(LastCemi)
               <=> (LastCemi[pos + 1] % 4 = 0 /\ LastCemi[pos + 2] \div 64 = 2)

(* ---------------- C18 ---------------- *)

\* the total_length field of a datagram of at least 6 bytes
Declared(d) == d[5] * 256 + d[6]
\* more bytes were received than total_length declares
IsPadded(d) == Len(d) >= 6 /\ Declared(d) >= 6 /\ Declared(d) < Len(d)
\* the same datagram cut at its declared length
Unpadded(d) == SubSeq(d, 1, Declared(d))

\* what one loop iteration leaves behind
Effect(ch, nc, sends, raised, response, client_addr, replyOk) ==
    [channels     |-> ch,
     next_channel |-> nc,
     out          |-> IF raised \/ response = None THEN sends
                      ELSE Append(sends, Send(response, client_addr, replyOk)),
     pc           |-> IF raised \/ (response # None /\ ~replyOk)
                      THEN "crashed" ELSE "receiving"]

\* the effects one invocation of the handler selected by the service type of
\* u can have in the current state, u being a datagram of exactly its
\* declared length whose body is all of u after the 6 header bytes
HandledOnce(u, client_addr) ==
    LET st   == u[3] * 256 + u[4]
        body == SubSeq(u, 7, Len(u))
    IN  IF st = SERVICE_CONNECT_REQUEST THEN
            LET r == handle_connect_request(body, client_addr)
            IN  { Effect(r.channels, r.next_channel, <<>>, r.raised, r.response,
                         client_addr, ok) : ok \in BOOLEAN }
        ELSE IF st = SERVICE_DISCONNECT_REQUEST THEN
            LET r == handle_disconnect_request(body, client_addr)
            IN  { Effect(r.channels, next_channel, <<>>, FALSE, r.response,
                         client_addr, ok) : ok \in BOOLEAN }
        ELSE IF st = SERVICE_TUNNELING_REQUEST THEN
            { LET r == handle_tunneling_request(body, client_addr, oks[1])
              IN  Effect(r.channels, next_channel, r.sends, r.raised, r.response,
                         client_addr, oks[2]) : oks \in BOOLEAN \X BOOLEAN }
        ELSE IF st = SERVICE_CONNECTIONSTATE_REQUEST THEN
            { Effect(channels, next_channel, <<>>, FALSE,
                     handle_connectionstate_request(body, client_addr),
                     client_addr, ok) : ok \in BOOLEAN }
        ELSE IF st = SERVICE_SEARCH_REQUEST THEN
            { Effect(channels, next_channel,
                     handle_search_request(body, client_addr, x[1], x[2], x[3]),
                     FALSE, None, client_addr, TRUE)
                : x \in BOOLEAN \X LocalIps \X BOOLEAN }
        ELSE { Effect(channels, next_channel, <<>>, FALSE, None, client_addr, TRUE) }

\* C18: a datagram padded beyond its declared total_length is handled exactly
\* like the same datagram cut at total_length: the session table, the
\* allocator, the frames sent and the fate of the loop are those of ONE
\* invocation of the handler on the unpadded body, so the excess bytes are
\* neither passed to the handler nor treated as a second frame.
C18_PaddingIgnored ==
    [][ (steps' = steps + 1 /\ IsPadded(last'.data))
        => [channels |-> channels', next_channel |-> next_channel',
            out |-> out', pc |-> pc']
               \in HandledOnce(Unpadded(last'.data), last'.addr) ]_vars

\* C18 witness: a padded GroupValue_Write on an open channel was echoed in an
\* indication exactly as long as the declared total_length, then acknowledged
C18_Witness ==
    /\ last.service = "tunneling"
    /\ IsPadded(last.data)
    /\ Len(out) = 2
    /\ IsInd(out[1]) /\ IsAck(out[2])
    /\ Len(out[1].frame) = Declared(last.data)
    /\ SubSeq(out[1].frame, 11, Len(out[1].frame)) = SubSeq(last.data, 11, Declared(last.data))

(* ---------------- C19 ---------------- *)

\* C19: a received TUNNELING_ACK, and a frame of any service type other than
\* the SEARCH, CONNECT, CONNECTIONSTATE, DISCONNECT and TUNNELING requests,
\* produces no outgoing frame (so no indication is retransmitted) and leaves
\* the session table and the channel allocator unchanged; the loop goes on.
C19_AckAndUnknownSilent ==
    (/\ last.service # "none"
     /\ Len(last.data) >= 6
     /\ last.data[3] * 256 + last.data[4] \notin
            {SERVICE_SEARCH_REQUEST, SERVICE_CONNECT_REQUEST,
             SERVICE_CONNECTIONSTATE_REQUEST, SERVICE_DISCONNECT_REQUEST,
             SERVICE_TUNNELING_REQUEST})
    => /\ out = <<>>
       /\ TableUnchanged
       /\ AllocatorUnchanged
       /\ pc # "crashed"

\* C19 witness: an ACK arrived for channel 1, which is open and has sent an
\* indication; nothing was sent in return
C19_Witness ==
    /\ Len(last.data) >= 8
    /\ last.data[3] * 256 + last.data[4] = SERVICE_TUNNELING_ACK
    /\ last.data[8] = 1
    /\ 1 \in DOMAIN channels
    /\ ind_seqs[1] # <<>>
    /\ out = <<>>

(* ---------------- C20 ---------------- *)

\* C20: when a handler's minimum body length is not met (DISCONNECT_REQUEST
\* or CONNECTIONSTATE_REQUEST with fewer than 2 body bytes, TUNNELING_REQUEST
\* with fewer than 4) no reply and no indication is sent and the session
\* table is unchanged: a short DISCONNECT_REQUEST closes nothing.
C20_ShortBodyNoEffect ==
    (\/ /\ last.service \in {"disconnect", "connectionstate"}
        /\ Len(LastBody) < 2
     \/ /\ last.service = "tunneling"
        /\ Len(LastBody) < 4)
    => /\ out = <<>>
       /\ TableUnchanged
       /\ AllocatorUnchanged
       /\ pc # "crashed"

\* C20 witness: a DISCONNECT_REQUEST whose body is the single byte 01 arrived
\* while channel 1 was open; channel 1 is still open and nothing was sent
C20_Witness ==
    /\ last.service = "disconnect"
    /\ LastBody = <<1>>
    /\ 1 \in DOMAIN prev.channels
    /\ 1 \in DOMAIN channels
    /\ out = <<>>

(* ---------------- C21 ---------------- *)

\* C21: handling a SEARCH_REQUEST makes exactly one send, a SEARCH_RESPONSE
\* whose body is the HPAI (advertised address, listening port), and makes it
\* itself: nothing goes through the reply path to the sender.  If that send
\* fails nothing else is sent and the receive loop continues.
C21_SearchSendsOnce ==
    last.service = "search"
    => /\ Len(out) = 1
       /\ Len(out[1].frame) = 14
       /\ SubSeq(out[1].frame, 1, 8) = <<6, 16, 2, 2, 0, 14, 8, 1>>
       /\ \E ip \in LocalIps \cup {Dotted(0, 0, 0, 0)} :
              SubSeq(out[1].frame, 9, 12) = inet_aton(ip)
       /\ SubSeq(out[1].frame, 13, 14) = <<port \div 256, port % 256>>
       /\ pc # "crashed"
       /\ TableUnchanged /\ AllocatorUnchanged

\* C21 witness: the one SEARCH_RESPONSE send raised; the target was the HPAI
\* of the request, not its sender, and the loop is still receiving
C21_Witness ==
    /\ last.service = "search"
    /\ HeaderOk
    /\ Len(out) = 1
    /\ ~out[1].ok
    /\ out[1].to # last.addr
    /\ pc = "receiving"

(* ---------------- C22 ---------------- *)

\* C22: the throwaway socket of the discovery responder is released within
\* the handling of its request, also when connecting it or reading its local
\* endpoint fails: after a SEARCH_REQUEST has been handled no throwaway
\* socket is open.
C22_ProbeSocketReleased ==
    (last.service = "search" /\ HeaderOk /\ SendsOk) => tmp = 0

(* ---------------- C23 ---------------- *)

\* C23: the k-th CONNECT_REQUEST handled since start is assigned channel id
\* k (the first one on a fresh simulator gets 1), however many DISCONNECT,
\* CONNECTIONSTATE, TUNNELING or SEARCH requests were handled in between:
\* the session it opens is keyed k and every CONNECT_RESPONSE sent for it
\* carries channel id k.
C23_KthConnectGetsK ==
    last.service = "connect"
    => /\ DOMAIN channels \ DOMAIN prev.channels = {connects}
       /\ channels[connects] = <<last.addr, 0>>
       /\ \A i \in DOMAIN out :
             /\ parse_header(out[i].frame).service_type = SERVICE_CONNECT_RESPONSE
             /\ out[i].frame[7] = connects

\* C23 witness: the second CONNECT_REQUEST since start came after
\* the DISCONNECT of channel 1 and was answered with channel id 2
C23_Witness ==
    /\ last.service = "connect"
    /\ connects = 2
    /\ next_channel = 3
    /\ prev.channels = <<>>
    /\ Len(out) = 1
    /\ out[1].frame[7] = 2

(* ---------------- C24 ---------------- *)

\* C24: duplicates are not suppressed.  When the same GroupValue_Write
\* TUNNELING_REQUEST (same channel, same incoming sequence, same sender) is
\* handled twice in a row on an open channel, each delivery yields its own
\* TUNNELING_ACK echoing the same connection header and its own
\* TUNNELING_INDICATION, the second indication carrying the sequence number
\* that follows the first one modulo 256.
C24_DuplicateNotSuppressed ==
    [][ (/\ steps' = steps + 1
         /\ last.service = "tunneling" /\ last'.service = "tunneling"
         /\ last' = last
         /\ HeaderOk
         /\ Len(LastBody) >= 4
         /\ is_group_write(LastCemi)
         /\ LastBody[2] \in DOMAIN prev.channels)
        => LET ack   == <<6, 16, 4, 33, 0, 11>> \o SubSeq(LastBody, 1, 4) \o <<0>>
               acks  == SelectSeq(out, IsAck)
               inds  == SelectSeq(out, IsInd)
               acks2 == SelectSeq(out', IsAck)
               inds2 == SelectSeq(out', IsInd)
           IN  /\ Len(acks) = 1 /\ acks[1].frame = ack
               /\ Len(acks2) = 1 /\ acks2[1].frame = ack
               /\ Len(inds) = 1 /\ Len(inds2) = 1
               /\ inds2[1].frame[9] = (inds[1].frame[9] + 1) % 256
               /\ SubSeq(inds2[1].frame, 11, Len(inds2[1].frame)) = LastCemi ]_vars

(* ---------------- C25 ---------------- *)

\* C25: for every advertised address and listening port, the discovery
\* client's parse_search_response applied to the simulator's SEARCH_RESPONSE
\* returns exactly (advertised_ip, listening_port), also when the address or
\* port bytes contain the pair 08 01.
C25_ResponseParsesBack ==
    (probe.op = "response" /\ probe.by = "simulator" /\ probe.stage = "parsed")
    => probe.result = <<probe.ip, probe.port>>

\* C25 witness: 8.1.8.1 port 0x0801 was advertised and parsed back
C25_Witness ==
    /\ probe.op = "response" /\ probe.by = "simulator" /\ probe.stage = "parsed"
    /\ SubSeq(probe.frame, 7, 14) = <<8, 1, 8, 1, 8, 1, 8, 1>>
    /\ probe.result = << <<<<8>>, <<1>>, <<8>>, <<1>>>>, 2049 >>

(* ---------------- C26 ---------------- *)

\* C26: the simulated SearchResponse of knx_search.build_search_response is
\* recognised by parse_search_response, which returns (server_ip,
\* server_port) for it, and its first 6 bytes are the header the simulator's
\* build_header produces for service 0x0202 and the 8-byte body.
C26_SimulatedResponseParses ==
    (probe.op = "response" /\ probe.by = "client" /\ probe.stage = "parsed")
    => /\ probe.result = <<probe.ip, probe.port>>
       /\ SubSeq(probe.frame, 1, 6) = build_header(SERVICE_SEARCH_RESPONSE, 8)

(* ---------------- C27 ---------------- *)

\* C27: a GroupValue_Write TUNNELING_REQUEST naming a channel that is not
\* open (never issued, or closed by DISCONNECT) is acknowledged with a
\* TUNNELING_ACK but causes no TUNNELING_INDICATION, creates no session and
\* changes no sequence counter; every TUNNELING_INDICATION sent names a
\* channel that is open when it is sent.
C27_NoIndicationOnClosedChannel ==
    /\ (/\ last.service = "tunneling"
        /\ Len(LastBody) >= 4
        /\ is_group_write(LastCemi)
        /\ LastBody[2] \notin DOMAIN prev.channels)
       => /\ Len(out) = 1
          /\ out[1].frame = <<6, 16, 4, 33, 0, 11>> \o SubSeq(LastBody, 1, 4) \o <<0>>
          /\ out[1].to = last.addr
          /\ TableUnchanged
    /\ \A i \in DOMAIN out :
          IsInd(out[i]) => /\ out[i].frame[8] \in DOMAIN prev.channels
                           /\ out[i].frame[8] \in DOMAIN channels

\* C27 witness: channel 1 was issued and then closed; a GroupValue_Write
\* naming it was acknowledged and nothing else happened
C27_Witness ==
    /\ last.service = "tunneling"
    /\ Len(LastBody) >= 4
    /\ is_group_write(LastCemi)
    /\ LastBody[2] = 1
    /\ next_channel >= 2
    /\ 1 \notin DOMAIN prev.channels
    /\ Len(out) = 1 /\ IsAck(out[1])

(* ---------------- C28 ---------------- *)

\* C28: every TUNNELING_INDICATION for channel c goes to the UDP source
\* address of the CONNECT_REQUEST that opened c: the session stores that
\* address (not an HPAI of the CONNECT body) when it is opened, keeps it
\* while c is open, and the indication is sent to the stored address even
\* when the triggering TUNNELING_REQUEST came from elsewhere; the
\* TUNNELING_ACK goes to the UDP source address of the request itself.
C28_IndicationToOpener ==
    [][ steps' = steps + 1
        => /\ last'.service = "connect"
              => \A c \in DOMAIN channels' \ DOMAIN channels :
                    channels'[c][1] = last'.addr
           /\ \A c \in DOMAIN channels \cap DOMAIN channels' :
                 channels'[c][1] = channels[c][1]
           /\ \A i \in DOMAIN out' :
                 /\ IsInd(out'[i]) => /\ out'[i].frame[8] \in DOMAIN channels
                                      /\ out'[i].to = channels[out'[i].frame[8]][1]
                 /\ (last'.service = "tunneling" /\ IsAck(out'[i]))
                       => out'[i].to = last'.addr ]_vars

\* C28 witness: a peer other than the one that opened the channel sent a
\* GroupValue_Write; the indication went to the opener, the ACK to the sender
C28_Witness ==
    /\ last.service = "tunneling"
    /\ Len(out) = 2
    /\ IsInd(out[1]) /\ IsAck(out[2])
    /\ out[1].to = channels[out[1].frame[8]][1]
    /\ out[1].to # last.addr
    /\ out[2].to = last.addr

(* ---------------- C29 ---------------- *)

\* the session table and the allocator agree with the CONNECT_REQUESTs
\* handled so far
AllocatorInv ==
    /\ DOMAIN channels \subseteq 1..(next_channel - 1)
    /\ next_channel - 1 = connects
    /\ Cardinality(DOMAIN channels) <= connects

\* C29: in every reachable state the keys of the session table are distinct
\* channel ids in 1 .. next_channel - 1, next_channel - 1 is the number of
\* CONNECT_REQUESTs handled so far and the number of open sessions does not
\* exceed it; next_channel never decreases.
C29_AllocatorInvariant ==
    [][ /\ AllocatorInv
        /\ AllocatorInv'
        /\ next_channel' >= next_channel ]_vars

\* C29 witness: two CONNECT_REQUESTs were handled, channel 1 was closed and
\* channel 2 is open
C29_Witness ==
    /\ connects = 2
    /\ next_channel = 3
    /\ DOMAIN channels = {2}

(* ---------------- C30 ---------------- *)

\* the channel id a DISCONNECT_REQUEST or TUNNELING_REQUEST datagram names
Named(service, d) ==
    LET body == SubSeq(d, 7, Len(d))
    IN  IF service = "disconnect" /\ Len(body) >= 1 THEN {body[1]}
        ELSE IF service = "tunneling" /\ Len(body) >= 2 THEN {body[2]}
        ELSE {}

\* C30: sessions are independent and their peer address is immutable.
\* Handling a request that names channel c changes at most c's entry: an
\* indication on c advances only c's counter, by one modulo 256, and a
\* DISCONNECT of c removes only c.  The peer address of a session never
\* changes while it is open, and CONNECT, CONNECTIONSTATE and SEARCH
\* requests (like every other datagram) leave every existing session as it
\* was.
C30_SessionsIndependent ==
    [][ steps' = steps + 1
        => LET named == Named(last'.service, last'.data)
           IN  /\ \A k \in DOMAIN channels \ named :
                     k \in DOMAIN channels' /\ channels'[k] = channels[k]
               /\ \A k \in DOMAIN channels \cap DOMAIN channels' :
                     /\ channels'[k][1] = channels[k][1]
                     /\ channels'[k][2] \in {channels[k][2], (channels[k][2] + 1) % 256}
               /\ last'.service # "connect" => DOMAIN channels' \subseteq DOMAIN channels
               /\ last'.service # "disconnect" => DOMAIN channels \subseteq DOMAIN channels'
               /\ last'.service # "tunneling"
                     => \A k \in DOMAIN channels \cap DOMAIN channels' :
                           channels'[k] = channels[k] ]_vars

\* C30 witness: with channels 1 and 2 open, a GroupValue_Write on channel 2
\* advanced the counter of channel 2 and left channel 1 as it was
C30_Witness ==
    /\ last.service = "tunneling"
    /\ DOMAIN channels = {1, 2}
    /\ LastBody[2] = 2
    /\ channels[2][2] = (prev.channels[2][2] + 1) % 256
    /\ channels[1] = prev.channels[1]

====
